---------------------------- MODULE Spec2Model ----------------------------
(***************************************************************************)
(* A model of labrat: the identity / output-directory scheme of an         *)
(* experiment (src/src/lib.rs, trait Experiment), the processes that race  *)
(* on the directory tree under ROOT, and the batch resource-query server   *)
(* (run_pipe_server).                                                      *)
(*                                                                         *)
(* A string is a sequence of tokens (a token is one character or an        *)
(* indivisible chunk of characters), so that concatenation, prefixes and   *)
(* the first character of a path are what they are in the program.         *)
(* An Option<T> is a set with at most one element.                         *)
(***************************************************************************)
EXTENDS Integers, Sequences, FiniteSets, TLC

VARIABLES
    fs,        \* canonical directory path -> "absent" | "dir" | "file"
    pfile,     \* canonical directory path -> Option(content of parameters.json)
    ifile,     \* path of an index file -> Option(its content)
    denied,    \* the filesystem refuses to create new directories (EACCES)
    pc,        \* process -> position in its call
    exp,       \* process -> the experiment instance (input, parameters)
    op,        \* process -> the method it calls
    err,       \* process -> the results of its mkdir calls so far, in order
    found,     \* process -> what p.exists() answered (lib.rs:125)
    ret,       \* process -> what the call returned
    restored,  \* process -> Option(the experiment from_index_file returned)
    ext,       \* Option(text of the external parameter file "f" of --load-params)
    request,   \* the argument vectors the orchestrator has put on the read pipe
    bpc,       \* position of the batch query server (run_pipe_server)
    commands,  \* run_pipe_server: the vectors the loop has still to take
    slurm_job_specs,  \* run_pipe_server: the records collected so far
    failed,    \* run_pipe_server: Option(index of the vector whose processing failed)
    output,    \* Option(payload written to the write pipe); None is zero bytes
    fnName,    \* the pure function last applied, or "none"
    fnIn,      \* its arguments
    fnOut      \* its result

fsVars == <<fs, pfile, ifile, denied>>
procVars == <<pc, exp, op, err, found, ret, restored>>
batchVars == <<ext, request, bpc, commands, slurm_job_specs, failed, output>>
fnVars == <<fnName, fnIn, fnOut>>
vars == <<fsVars, procVars, batchVars, fnVars>>

None == {}
Some(x) == {x}
Unwrap(o) == CHOOSE x \in o : TRUE

-----------------------------------------------------------------------------
(* Values of the example experiment, src/examples/usage.rs *)

\* struct Params (usage.rs:30-50), reduced to one value field and the name override
Names == {<<>>, <<"n">>, <<"n", "/">>}
ParamsAll == [frob : BOOLEAN, param_name : {None} \cup {Some(n) : n \in Names}]

\* the parameter sets the racing processes are run with
ParamsRun == {p \in ParamsAll : p.param_name \in {None, Some(<<"n">>)}}

\* serde_json::to_string of a Params value: fields in declared order
json_bool(b) == IF b THEN <<"true">> ELSE <<"false">>
json_opt_string(o) == IF o = None THEN <<"null">> ELSE <<"\"">> \o Unwrap(o) \o <<"\"">>
to_string(p) ==
    <<"{", "\"frob\":">> \o json_bool(p.frob) \o <<",", "\"param_name\":">>
        \o json_opt_string(p.param_name) \o <<"}">>

\* serde_json::to_string_pretty: the same members, one per line
to_string_pretty(p) ==
    <<"{", "\n", "\"frob\":", " ">> \o json_bool(p.frob) \o <<",", "\n", "\"param_name\":", " ">>
        \o json_opt_string(p.param_name) \o <<"\n", "}">>

\* sha2::Sha224 then base_62::encode, as an uninterpreted injective digest of the bytes
id_from_serialised(p) == <<"#">> \o to_string(p)


\* impl IdStr for Params (usage.rs:65-69): the name if one was given, else the digest
id_str_params(p) ==
    IF p.param_name # None THEN Unwrap(p.param_name) ELSE id_from_serialised(p)

\* struct Inputs (usage.rs:9-16); tw_scale is kept as a whole number
Indexes == {0, 1}

DigitTok(d) ==
    CASE d = 0 -> "0" [] d = 1 -> "1" [] d = 2 -> "2" [] d = 3 -> "3" [] d = 4 -> "4"
      [] d = 5 -> "5" [] d = 6 -> "6" [] d = 7 -> "7" [] d = 8 -> "8" [] d = 9 -> "9"

RECURSIVE Digits(_)
Digits(n) == IF n < 10 THEN <<DigitTok(n)>> ELSE Digits(n \div 10) \o <<DigitTok(n % 10)>>

\* the {:0w} of format!: zero-padded on the left to at least w characters
RECURSIVE ZeroPad(_, _)
ZeroPad(s, w) == IF Len(s) >= w THEN s ELSE ZeroPad(<<"0">> \o s, w)

\* impl IdStr for Inputs (usage.rs:18-22)
id_str_inputs(i) ==
    <<"I", "D", "X">> \o ZeroPad(Digits(i.index), 3) \o <<"_", "T", "W">>
        \o ZeroPad(Digits(i.tw_scale * 1000), 6)

-----------------------------------------------------------------------------
(* Paths: std::path::PathBuf over strings *)

IsAbsolute(s) == s # <<>> /\ s[1] = "/"

\* PathBuf::push: an absolute argument replaces the path; otherwise it is
\* appended, after a separator unless the path already ends with one
push(path, s) ==
    IF IsAbsolute(s) THEN s
    ELSE IF path = <<>> \/ path[Len(path)] = "/" THEN path \o s
    ELSE path \o <<"/">> \o s

\* Experiment::root_dir of the example (usage.rs:118-120): ".../logs/"
root_dir == <<"/", "logs", "/">>

\* Path::canonicalize on a path without symlinks or dots: trailing separators go
RECURSIVE canonical(_)
canonical(path) ==
    IF Len(path) > 1 /\ path[Len(path)] = "/" THEN canonical(SubSeq(path, 1, Len(path) - 1))
    ELSE path

RootC == canonical(root_dir)

\* ROOT/PARAM_ID as built at lib.rs:90-91 and 103-104
log_dir(e) == push(root_dir, id_str_params(e.parameters))

\* the directories of the model: ROOT and one per parameter identity
Dirs == {RootC} \cup {canonical(push(root_dir, id_str_params(p))) : p \in ParamsRun}

Leaf(e) == canonical(log_dir(e))

-----------------------------------------------------------------------------
(* The filesystem under ROOT and the processes that race on it *)

Procs == {"p1", "p2"}

Ops == {"get_output_path", "get_output_path_prefixed", "write_parameter_file"}

Experiments == [input : [index : Indexes, tw_scale : {1}], parameters : ParamsRun]

NoRet == [kind |-> "none", path |-> <<>>, e |-> "none"]
RetOk(path) == [kind |-> "ok", path |-> path, e |-> "none"]
RetErr(e) == [kind |-> "err", path |-> <<>>, e |-> e]
RetPanic(e) == [kind |-> "panic", path |-> <<>>, e |-> e]

\* mkdir(2) of directory d in filesystem f: the io::ErrorKind, or "Ok"
mkdir(f, d, noperm) ==
    IF d # RootC /\ f[RootC] = "absent" THEN "NotFound"
    ELSE IF d # RootC /\ f[RootC] = "file" THEN "NotADirectory"
    ELSE IF f[d] # "absent" THEN "AlreadyExists"
    ELSE IF noperm THEN "PermissionDenied"
    ELSE "Ok"

\* a regular file made where the directory should be
created_as_file(f, d) == [f EXCEPT ![d] = "file"]

\* the filesystem after a successful mkdir(2) of d
created(f, d) == [f EXCEPT ![d] = "dir"]

\* create_dir in the place of create_dir_all: a missing parent is not created
after_first_mkdir_no_parent(k) == IF k = "Ok" THEN "canon" ELSE "isdir"

\* std::fs::create_dir_all, called at lib.rs:169, after its first mkdir answered
\* k: done, create the parent first, or ask whether the path is a directory
after_first_mkdir(k) ==
    IF k = "Ok" THEN "canon" ELSE IF k = "NotFound" THEN "parent" ELSE "isdir"

\* every error of create_dir_all ignored
ensure_goes_on_whatever(r) == TRUE

\* ensure_directory_exists (lib.rs:168-177): which results of create_dir_all
\* let it go on to canonicalize
ensure_goes_on(r) == r = "Ok" \/ r = "AlreadyExists"

\* the filenames the calls of the model resolve
LogName == <<"log.json">>
ErrSuffix == <<".err">>

\* get_output_path (lib.rs:89-95), from the canonical directory on
get_output_path(dir, filename) == push(dir, filename)

\* a prefix that brings its own hyphen
get_output_path_prefixed_hyphen(dir, input_id, filename) ==
    push(dir, input_id \o <<"-">> \o filename)

\* get_output_path_prefixed (lib.rs:102-108), from the canonical directory on;
\* input_id is self.input().id_str()
get_output_path_prefixed(dir, input_id, filename) ==
    push(dir, input_id \o filename)

IndexSuffix == <<"-index.json">>

\* Experiment::new_output of the example (usage.rs:108-116), config default
new_output(inputs) == [log |-> id_str_inputs(inputs) \o <<"-sollog.json">>, trace_log |-> None]

\* serde_json::to_string_pretty of json!({"input": .., "output": ..})
\* (lib.rs:113-117): Inputs (usage.rs:9-16) and Outputs (usage.rs:71-76), whose
\* trace_log is left out when it is None
json_inputs(i) ==
    <<"{", "\n", "\"index\":", " ">> \o Digits(i.index) \o <<",", "\n", "\"tw_scale\":", " ">>
        \o Digits(i.tw_scale) \o <<".0", "\n", "}">>

json_outputs(o) ==
    <<"{", "\n", "\"log\":", " ", "\"">> \o o.log \o <<"\"">>
        \o (IF o.trace_log = None THEN <<>>
            ELSE <<",", "\n", "\"trace_log\":", " ", "\"">> \o Unwrap(o.trace_log) \o <<"\"">>)
        \o <<"\n", "}">>

index_json(inputs, outputs) ==
    <<"{", "\n", "\"input\":", " ">> \o json_inputs(inputs) \o <<",", "\n", "\"output\":", " ">>
        \o json_outputs(outputs) \o <<"\n", "}">>

\* where write_index_file puts the index of an experiment (lib.rs:112)
index_path(e) == get_output_path_prefixed(Leaf(e), id_str_inputs(e.input), IndexSuffix)

\* the index files of the model: one per directory and input
IndexPaths ==
    {get_output_path_prefixed(d, id_str_inputs(i), IndexSuffix) :
        d \in Dirs, i \in [index : Indexes, tw_scale : {1}]}

InitFs ==
    /\ fs \in [Dirs -> {"absent", "dir", "file"}]
    /\ \A d \in Dirs \ {RootC} : fs[RootC] # "dir" => fs[d] = "absent"
    /\ pfile = [d \in Dirs |-> None]
    /\ ifile = [x \in IndexPaths |-> None]
    /\ denied \in BOOLEAN

InitProcs ==
    /\ pc = [p \in Procs |-> "idle"]
    /\ exp \in [Procs -> Experiments]
    /\ op = [p \in Procs |-> "none"]
    /\ err = [p \in Procs |-> <<>>]
    /\ found = [p \in Procs |-> FALSE]
    /\ ret = [p \in Procs |-> NoRet]
    /\ restored = [p \in Procs |-> None]

\* the `e` of the failed mkdir that create_dir_all is looking at
LastErr(p) == err[p][Len(err[p])]

\* a process enters one of the methods of trait Experiment
Call(p, o) ==
    /\ pc[p] = "idle"
    /\ op' = [op EXCEPT ![p] = o]
    /\ pc' = [pc EXCEPT ![p] = "mkdir"]
    /\ UNCHANGED <<fs, pfile, ifile, denied, exp, err, found, ret, restored>>

\* create_dir_all returned r to ensure_directory_exists (lib.rs:169-175), whose
\* error the callers unwrap (lib.rs:92, 105)
Returned(p, r) ==
    IF ensure_goes_on(r)
    THEN /\ pc' = [pc EXCEPT ![p] = "canon"]
         /\ ret' = ret
    ELSE /\ pc' = [pc EXCEPT ![p] = "done"]
         /\ ret' = [ret EXCEPT ![p] = RetPanic(r)]

\* create_dir_all: the first mkdir of ROOT/PARAM_ID
Mkdir(p) ==
    /\ pc[p] = "mkdir"
    /\ LET k == mkdir(fs, Leaf(exp[p]), denied) IN
        /\ fs' = IF k = "Ok" THEN created(fs, Leaf(exp[p])) ELSE fs
        /\ err' = [err EXCEPT ![p] = Append(@, k)]
        /\ IF after_first_mkdir(k) = "canon"
           THEN Returned(p, "Ok")
           ELSE /\ pc' = [pc EXCEPT ![p] = after_first_mkdir(k)]
                /\ ret' = ret
    /\ UNCHANGED <<pfile, ifile, denied, exp, op, found, restored>>

\* create_dir_all: mkdir failed, `Err(_) if path.is_dir() => Ok(())`
IsDir(p) ==
    /\ pc[p] \in {"isdir", "again_isdir"}
    /\ Returned(p, IF fs[Leaf(exp[p])] = "dir" THEN "Ok" ELSE LastErr(p))
    /\ UNCHANGED <<fs, pfile, ifile, denied, exp, op, err, found, restored>>

\* create_dir_all: the parent (ROOT) is created first
ParentMkdir(p) ==
    /\ pc[p] = "parent"
    /\ LET k == mkdir(fs, RootC, denied) IN
        /\ fs' = IF k = "Ok" THEN created(fs, RootC) ELSE fs
        /\ err' = [err EXCEPT ![p] = Append(@, k)]
        /\ pc' = [pc EXCEPT ![p] = IF k = "Ok" THEN "again" ELSE "parent_isdir"]
    /\ UNCHANGED <<pfile, ifile, denied, exp, op, found, ret, restored>>

ParentIsDir(p) ==
    /\ pc[p] = "parent_isdir"
    /\ IF fs[RootC] = "dir"
       THEN /\ pc' = [pc EXCEPT ![p] = "again"]
            /\ ret' = ret
       ELSE Returned(p, LastErr(p))
    /\ UNCHANGED <<fs, pfile, ifile, denied, exp, op, err, found, restored>>

\* create_dir_all: the second mkdir of ROOT/PARAM_ID, after the parent
MkdirAgain(p) ==
    /\ pc[p] = "again"
    /\ LET k == mkdir(fs, Leaf(exp[p]), denied) IN
        /\ fs' = IF k = "Ok" THEN created(fs, Leaf(exp[p])) ELSE fs
        /\ err' = [err EXCEPT ![p] = Append(@, k)]
        /\ IF k = "Ok"
           THEN Returned(p, "Ok")
           ELSE /\ pc' = [pc EXCEPT ![p] = "again_isdir"]
                /\ ret' = ret
    /\ UNCHANGED <<pfile, ifile, denied, exp, op, found, restored>>

\* path.canonicalize().unwrap() (lib.rs:176), then the push of the file name
Canonicalize(p) ==
    /\ pc[p] = "canon"
    /\ IF fs[Leaf(exp[p])] = "absent"
       THEN /\ pc' = [pc EXCEPT ![p] = "done"]
            /\ ret' = [ret EXCEPT ![p] = RetPanic("NotFound")]
       ELSE CASE op[p] = "get_output_path" ->
                   /\ pc' = [pc EXCEPT ![p] = "done"]
                   /\ ret' = [ret EXCEPT ![p] =
                                RetOk(get_output_path(Leaf(exp[p]), LogName))]
              [] op[p] = "get_output_path_prefixed" ->
                   /\ pc' = [pc EXCEPT ![p] = "done"]
                   /\ ret' = [ret EXCEPT ![p] =
                                RetOk(get_output_path_prefixed(Leaf(exp[p]),
                                           id_str_inputs(exp[p].input), ErrSuffix))]
              [] op[p] = "write_parameter_file" ->
                   /\ pc' = [pc EXCEPT ![p] = "exists"]
                   /\ ret' = ret
              [] op[p] = "write_index_file" ->
                   /\ pc' = [pc EXCEPT ![p] = "write_index"]
                   /\ ret' = ret
    /\ UNCHANGED <<fs, pfile, ifile, denied, exp, op, err, found, restored>>


\* the write without the exists() test: the file is written on every call
writes_file_always(exists) == TRUE

\* write_parameter_file (lib.rs:125): the file is written when this is true
writes_file(exists) == ~exists

\* write_parameter_file: `if !p.exists()` (lib.rs:125)
Exists(p) ==
    /\ pc[p] = "exists"
    /\ LET e == fs[Leaf(exp[p])] = "dir" /\ pfile[Leaf(exp[p])] # None IN
        /\ found' = [found EXCEPT ![p] = e]
        /\ IF writes_file(e)
           THEN /\ pc' = [pc EXCEPT ![p] = "write"]
                /\ ret' = ret
           ELSE /\ pc' = [pc EXCEPT ![p] = "done"]
                /\ ret' = [ret EXCEPT ![p] = RetOk(<<>>)]
    /\ UNCHANGED <<fs, pfile, ifile, denied, exp, op, err, restored>>

\* the parameters written without their name
parameter_text_unnamed(e) == to_string_pretty([e.parameters EXCEPT !.param_name = None])

\* the text write_parameter_file writes: to_string_pretty(self.parameter()) (lib.rs:126)
parameter_text(e) == to_string_pretty(e.parameters)

\* write_parameter_file: std::fs::write(p, to_string_pretty(parameter)) (lib.rs:126)
Write(p) ==
    /\ pc[p] = "write"
    /\ IF fs[Leaf(exp[p])] = "dir"
       THEN /\ pfile' = [pfile EXCEPT ![Leaf(exp[p])] =
                            Some(parameter_text(exp[p]))]
            /\ ret' = [ret EXCEPT ![p] = RetOk(<<>>)]
       ELSE /\ pfile' = pfile
            /\ ret' = [ret EXCEPT ![p] = RetErr("NotADirectory")]
    /\ pc' = [pc EXCEPT ![p] = "done"]
    /\ UNCHANGED <<fs, ifile, denied, exp, op, err, found, restored>>

Step(p) ==
    \/ \E o \in Ops : Call(p, o)
    \/ Mkdir(p)
    \/ IsDir(p)
    \/ ParentMkdir(p)
    \/ ParentIsDir(p)
    \/ MkdirAgain(p)
    \/ Canonicalize(p)
    \/ Exists(p)
    \/ Write(p)

\* no batch server runs
BatchOff ==
    /\ ext = None
    /\ request = <<>>
    /\ bpc = "off"
    /\ commands = <<>>
    /\ slurm_job_specs = <<>>
    /\ failed = None
    /\ output = None

\* no pure function is being exercised
FnOff ==
    /\ fnName = "none"
    /\ fnIn = <<>>
    /\ fnOut = <<>>

Init == InitFs /\ InitProcs /\ BatchOff /\ FnOff

\* independent processes, interleaved at their system calls
Next == (\E p \in Procs : Step(p)) /\ UNCHANGED <<batchVars, fnVars>>

Spec == Init /\ [][Next]_vars

\* the same calls made one after the other: a process moves only while no
\* other process is inside a call
Sequential(p) == \A q \in Procs \ {p} : pc[q] \in {"idle", "done"}

SeqNext ==
    (\E p \in Procs : Sequential(p) /\ Step(p)) /\ UNCHANGED <<batchVars, fnVars>>

SeqSpec == Init /\ [][SeqNext]_vars

-----------------------------------------------------------------------------
(* Claims about the parameter file and the resolver *)

\* the directory part of a path: everything before its last separator
RECURSIVE dirname(_)
dirname(path) ==
    IF path = <<>> THEN <<>>
    ELSE IF path[Len(path)] = "/" THEN SubSeq(path, 1, Len(path) - 1)
    ELSE dirname(SubSeq(path, 1, Len(path) - 1))

Resolvers == {"get_output_path", "get_output_path_prefixed"}

\* C1: under any interleaving of processes calling write_parameter_file, once
\* parameters.json exists no later step replaces its content.
C1_NeverClobbered ==
    [][\A d \in Dirs : pfile[d] # None => pfile'[d] = pfile[d]]_vars

\* C2: in sequential calls, a call of write_parameter_file that meets an
\* existing parameters.json keeps the file as it is, never reaches the write and
\* does not fail, whether its own parameters equal the stored ones or not; an
\* existing file is never written again.
C2_SequentialWriteOnce ==
    [][/\ \A d \in Dirs : pfile[d] # None => pfile'[d] = pfile[d]
       /\ \A p \in Procs :
            (/\ op[p] = "write_parameter_file"
             /\ pc[p] \notin {"idle", "done"}
             /\ pfile[Leaf(exp[p])] # None)
            => /\ pc'[p] # "write"
               /\ ret'[p].kind \in {"none", "ok"}
               /\ (pc'[p] = "done" => ret'[p] = RetOk(<<>>))]_vars

\* a second sequential call returned success on a file holding other parameters
C2_Witness ==
    \E p \in Procs :
        /\ pc[p] = "done" /\ op[p] = "write_parameter_file"
        /\ found[p] /\ ret[p] = RetOk(<<>>)
        /\ pfile[Leaf(exp[p])] # None
        /\ pfile[Leaf(exp[p])] # Some(to_string_pretty(exp[p].parameters))

\* C3: two processes resolving the same (root, parameter identity) concurrently,
\* with no obstacle other than each other (no permission error, no regular file
\* in the way), both succeed under every interleaving and return paths in the
\* same, existing directory.
C3_ConcurrentResolve ==
    \A p, q \in Procs :
        (/\ p # q
         /\ op[p] \in Resolvers /\ op[q] \in Resolvers
         /\ pc[p] = "done" /\ pc[q] = "done"
         /\ Leaf(exp[p]) = Leaf(exp[q])
         /\ ~denied /\ fs[RootC] # "file" /\ fs[Leaf(exp[p])] # "file")
        => /\ ret[p].kind = "ok" /\ ret[q].kind = "ok"
           /\ dirname(ret[p].path) = dirname(ret[q].path)
           /\ dirname(ret[p].path) = canonical(log_dir(exp[p]))

\* the race itself: ROOT/PARAM_ID was absent at p's first mkdir (NotFound: ROOT
\* was missing too), q created it, and p's second mkdir answered AlreadyExists
C3_Witness ==
    \E p, q \in Procs :
        /\ p # q
        /\ op[p] \in Resolvers /\ op[q] \in Resolvers
        /\ pc[p] = "done" /\ pc[q] = "done"
        /\ Leaf(exp[p]) = Leaf(exp[q])
        /\ Len(err[p]) = 3 /\ err[p][1] = "NotFound" /\ err[p][3] = "AlreadyExists"
        /\ err[q][Len(err[q])] = "Ok"
        /\ ret[p].kind = "ok" /\ ret[q].kind = "ok"

\* C4: whenever the resolver returns a path, the containing location exists
\* and is a directory, whatever the filesystem held before.
C4_ReturnedDirIsDir ==
    \A p \in Procs :
        (pc[p] = "done" /\ op[p] \in Resolvers /\ ret[p].kind = "ok")
        => fs[dirname(ret[p].path)] = "dir"

-----------------------------------------------------------------------------
(* The Resource Policy Normalizer: SlurmResources (lib.rs:226-316) *)

\* impl ToString for MailType (lib.rs:226-246)
MailTypes ==
    {"None", "Begin", "End", "Fail", "Requeue", "All", "InvalidDepend", "StageOut",
     "TimeLimit", "TimeLimit90", "TimeLimit80", "TimeLimit50", "ArrayTasks"}

mail_type_to_string(m) ==
    CASE m = "None" -> <<"NONE">>
      [] m = "Begin" -> <<"BEGIN">>
      [] m = "End" -> <<"END">>
      [] m = "Fail" -> <<"FAIL">>
      [] m = "Requeue" -> <<"REQUEUE">>
      [] m = "All" -> <<"ALL">>
      [] m = "InvalidDepend" -> <<"INVALID_DEPEND">>
      [] m = "StageOut" -> <<"STAGE_OUT">>
      [] m = "TimeLimit" -> <<"TIME_LIMIT">>
      [] m = "TimeLimit90" -> <<"TIME_LIMIT_90">>
      [] m = "TimeLimit80" -> <<"TIME_LIMIT_80">>
      [] m = "TimeLimit50" -> <<"TIME_LIMIT_50">>
      [] m = "ArrayTasks" -> <<"ARRAY_TASKS">>

\* [String]::join(",")
RECURSIVE join_comma(_)
join_comma(ss) ==
    IF ss = <<>> THEN <<>>
    ELSE IF Len(ss) = 1 THEN ss[1]
    ELSE ss[1] \o <<",">> \o join_comma(Tail(ss))

\* the hours left as they are, not reduced to the hours of the last day
fmt_as_slurm_time_all_hours(secs0) ==
    LET minutes0 == secs0 \div 60
        secs == secs0 - minutes0 * 60
        hrs0 == minutes0 \div 60
        minutes == minutes0 - hrs0 * 60
        days == hrs0 \div 24
    IN  Digits(days) \o <<"-">> \o Digits(hrs0) \o <<":">> \o ZeroPad(Digits(minutes), 2)
            \o <<":">> \o ZeroPad(Digits(secs), 2)

\* fmt_as_slurm_time (lib.rs:278-286)
fmt_as_slurm_time(secs0) ==
    LET minutes0 == secs0 \div 60
        secs == secs0 - minutes0 * 60
        hrs0 == minutes0 \div 60
        minutes == minutes0 - hrs0 * 60
        days == hrs0 \div 24
        hrs == hrs0 - days * 24
    IN  Digits(days) \o <<"-">> \o Digits(hrs) \o <<":">> \o ZeroPad(Digits(minutes), 2)
            \o <<":">> \o ZeroPad(Digits(secs), 2)

\* the field present whatever the list holds
mail_type_field_present(mt) ==
    Some(join_comma([i \in 1..Len(mt) |-> mail_type_to_string(mt[i])]))

\* `let mail_type = {..}` of SlurmResources::new (lib.rs:290-298)
mail_type_field(mt) ==
    IF mt = <<>> THEN None
    ELSE Some(join_comma([i \in 1..Len(mt) |-> mail_type_to_string(mt[i])]))

\* SlurmResources::new (lib.rs:289-315), from what the ResourcePolicy methods
\* answer (pol) and the two log paths
SlurmResources_new(pol, log_err, log_out) ==
    [ script |-> pol.script,
      log_err |-> log_err,
      log_out |-> log_out,
      job_name |-> pol.job_name,
      cpus |-> pol.cpus,
      nodes |-> pol.nodes,
      time |-> fmt_as_slurm_time(pol.time),
      memory |-> Digits(pol.memory) \o <<"M", "B">>,
      mail_user |-> pol.mail_user,
      mail_type |-> mail_type_field(pol.mail_type),
      constraint |-> pol.constraint,
      exclude |-> pol.exclude,
      nodelist |-> pol.nodelist ]

\* #[derive(Serialize)] on SlurmResources (lib.rs:248-276): the members of the
\* JSON object as <<key, value>>, in declared order, under the renamed keys
\* (exclude is not renamed; nodelist is renamed "constraint"), an Option member
\* left out when it is None
member(key, v) == << <<key, v>> >>

\* an Option member without skip_serializing_if: None is written as null
opt_member_null(key, o) ==
    IF o = None THEN << <<key, <<"null">>>> >> ELSE << <<key, Unwrap(o)>> >>

opt_member(key, o) == IF o = None THEN <<>> ELSE << <<key, Unwrap(o)>> >>

serialize(r) ==
    member("script", r.script) \o member("err", r.log_err) \o member("out", r.log_out)
        \o opt_member("job-name", r.job_name)
        \o member("cpus-per-task", Digits(r.cpus)) \o member("nodes", Digits(r.nodes))
        \o member("time", r.time) \o member("mem", r.memory)
        \o opt_member("mail-user", r.mail_user) \o opt_member("mail-type", r.mail_type)
        \o opt_member("constraint", r.constraint) \o opt_member("exclude", r.exclude)
        \o opt_member("constraint", r.nodelist)

\* MemoryAmount::from_gb (lib.rs:195-197)
from_gb(amount) == amount * 1000

\* impl ResourcePolicy for MyExperiment (usage.rs:123-132) over the defaults
\* of the trait (lib.rs:331-364)
policy(e) ==
    [ script |-> <<"#!/bin/bash", "\n">>,
      time |-> 300 + 60 * (e.input.index \div 10),
      memory |-> from_gb(4),
      cpus |-> 1,
      nodes |-> 1,
      job_name |-> Some(<<"hello world">>),
      mail_user |-> None,
      mail_type |-> <<>>,
      constraint |-> None,
      exclude |-> Some(<<"shitty-node-that-fails">>),
      nodelist |-> None ]

-----------------------------------------------------------------------------
(* One process alone on the filesystem: the resolver as a function *)

\* std::fs::create_dir_all (called at lib.rs:169) run to its end on filesystem f
create_dir_all(f, d, noperm) ==
    LET k1 == mkdir(f, d, noperm)
        n1 == after_first_mkdir(k1)
    IN  IF n1 = "canon" THEN [fs |-> created(f, d), r |-> "Ok"]
        ELSE IF n1 = "isdir" THEN [fs |-> f, r |-> IF f[d] = "dir" THEN "Ok" ELSE k1]
        ELSE LET kp == mkdir(f, RootC, noperm)
                 f1 == IF kp = "Ok" THEN created(f, RootC) ELSE f
             IN  IF f1[RootC] # "dir" THEN [fs |-> f1, r |-> kp]
                 ELSE LET k2 == mkdir(f1, d, noperm)
                      IN  IF k2 = "Ok" THEN [fs |-> created(f1, d), r |-> "Ok"]
                          ELSE [fs |-> f1, r |-> IF f1[d] = "dir" THEN "Ok" ELSE k2]

\* ensure_directory_exists(ROOT/PARAM_ID).unwrap() (lib.rs:90-92, 168-177):
\* the canonical directory, or a panic
ensure_directory_exists(f, e, noperm) ==
    LET c == create_dir_all(f, Leaf(e), noperm)
    IN  IF ensure_goes_on(c.r) /\ c.fs[Leaf(e)] # "absent"
        THEN [fs |-> c.fs, kind |-> "ok", dir |-> canonical(log_dir(e))]
        ELSE [fs |-> c.fs, kind |-> "panic", dir |-> <<>>]

-----------------------------------------------------------------------------
(* Command lines: clap's parser for struct ClArgs (lib.rs:399-439) over the  *)
(* arguments of the example (usage.rs:9-57)                                  *)

\* the words a command line of the model is made of: two numbers (positional
\* INDEX, then TW_SCALE), a parameter switch, the print-ResourceSpec switch of
\* SlurmArgs, and --load-params with its value "f" attached
Tokens == {"0", "1", "--frob", "--slurminfo", "-lf"}

NumTokens == {"0", "1"}
NumVal(t) == IF t = "0" THEN 0 ELSE 1

ArgsDefault ==
    [ok |-> TRUE, npos |-> 0, index |-> 0, tw_scale |-> 1, frob |-> FALSE,
     info |-> FALSE, load_params |-> None]

\* the arguments after the binary name, left to right; S is the flattened
\* `slurm` member: "SlurmArgs" knows --slurminfo, "NoSlurmArgs" knows nothing.
\* A switch given twice, an unknown argument, a third positional or a missing
\* INDEX is a usage error.
RECURSIVE parse_tokens(_, _, _)
parse_tokens(S, toks, a) ==
    IF toks = <<>> THEN [a EXCEPT !.ok = (a.npos > 0)]
    ELSE LET t == Head(toks)
             rest == Tail(toks)
             usage == [a EXCEPT !.ok = FALSE]
         IN  CASE t = "--frob" ->
                    IF a.frob THEN usage
                    ELSE parse_tokens(S, rest, [a EXCEPT !.frob = TRUE])
               [] t = "--slurminfo" ->
                    IF S # "SlurmArgs" \/ a.info THEN usage
                    ELSE parse_tokens(S, rest, [a EXCEPT !.info = TRUE])
               [] t = "-lf" ->
                    IF a.load_params # None THEN usage
                    ELSE parse_tokens(S, rest, [a EXCEPT !.load_params = Some(<<"f">>)])
               [] t \in NumTokens ->
                    IF a.npos = 0
                    THEN parse_tokens(S, rest, [a EXCEPT !.npos = 1, !.index = NumVal(t)])
                    ELSE IF a.npos = 1
                    THEN parse_tokens(S, rest, [a EXCEPT !.npos = 2, !.tw_scale = NumVal(t)])
                    ELSE usage
               [] OTHER -> usage

\* Parser::try_parse_from(argv): the first item is taken as the binary name
try_parse_from(S, argv) ==
    parse_tokens(S, IF argv = <<>> THEN <<>> ELSE Tail(argv), ArgsDefault)

\* read_json::<Params> (lib.rs:16-28) of a file's text: Option(the value)
from_json(text) ==
    {p \in ParamsAll : to_string_pretty(p) = text \/ to_string(p) = text}

\* Experiment::post_parse, the default (lib.rs:78-84): nothing is changed
post_parse(inputs, parameters) == parameters

\* the implementations of the hook an experiment type may give in the place of
\* the default: it sees the inputs and may change the parameters
Hooks == {"default", "unname", "frob_by_index"}

post_parse_with(hook, inputs, parameters) ==
    CASE hook = "default" -> post_parse(inputs, parameters)
      [] hook = "unname" -> [parameters EXCEPT !.param_name = None]
      [] hook = "frob_by_index" -> [parameters EXCEPT !.frob = (inputs.index = 1)]

NoExp == [input |-> [index |-> 0, tw_scale |-> 1],
          parameters |-> [frob |-> FALSE, param_name |-> None],
          output |-> new_output([index |-> 0, tw_scale |-> 1])]

\* the parameter flags kept although a parameter file is named
load_params_flags_kept(a, cl, extfile) == Some(cl)

\* `if let Some(p) = load_params { parameters = read_json(p)? }` (lib.rs:465-467):
\* Option(the parameters after it); None when the file cannot be read as Params
load_params(a, cl, extfile) ==
    IF a.load_params = None THEN Some(cl)
    ELSE IF extfile = None THEN None
    ELSE from_json(Unwrap(extfile))

\* ClArgs::into_experiment (lib.rs:455-472) of an experiment type whose hook is
\* `hook`, on parsed arguments a, the external parameter file holding extfile;
\* `handed` is the parameter set the hook was called with
into_experiment_with(hook, a, extfile) ==
    LET inputs == [index |-> a.index, tw_scale |-> a.tw_scale]
        cl == [frob |-> a.frob, param_name |-> None]
        loaded == load_params(a, cl, extfile)
    IN  IF loaded = None
        THEN [ok |-> FALSE, exp |-> NoExp, handed |-> None]
        ELSE LET parameters == post_parse_with(hook, inputs, Unwrap(loaded))
                 outputs == new_output(inputs)
             IN  [ok |-> TRUE,
                  exp |-> [input |-> inputs, parameters |-> parameters,
                           output |-> outputs],
                  handed |-> loaded]

\* the same for the example, which keeps the default hook
into_experiment(a, extfile) == into_experiment_with("default", a, extfile)

OutSuffix == <<".out">>

\* SlurmResources::new(&exp) for an experiment e whose ResourcePolicy methods
\* answer pol, with the default log_err and log_out (lib.rs:368-376): two
\* resolver calls, then the record, serialized
normalize(pol, e, f, noperm) ==
    LET r1 == ensure_directory_exists(f, e, noperm)
        r2 == ensure_directory_exists(r1.fs, e, noperm)
    IN  IF r1.kind # "ok" \/ r2.kind # "ok"
        THEN [status |-> "panic", fs |-> IF r1.kind # "ok" THEN r1.fs ELSE r2.fs,
              spec |-> <<>>]
        ELSE [status |-> "ok", fs |-> r2.fs,
              spec |-> serialize(SlurmResources_new(pol,
                          get_output_path_prefixed(r1.dir, id_str_inputs(e.input), ErrSuffix),
                          get_output_path_prefixed(r2.dir, id_str_inputs(e.input), OutSuffix)))]

\* the same for the example experiment and its policy
resources(e, f, noperm) == normalize(policy(e), e, f, noperm)

\* parse, construct, normalize: what both modes do with one command line
process(S, argv, f, extfile, noperm) ==
    LET a == try_parse_from(S, argv)
        x == into_experiment(a, extfile)
    IN  IF ~a.ok THEN [status |-> "usage", fs |-> f, spec |-> <<>>, info |-> FALSE]
        ELSE IF ~x.ok THEN [status |-> "error", fs |-> f, spec |-> <<>>, info |-> a.info]
        ELSE LET r == resources(x.exp, f, noperm)
             IN  [status |-> r.status, fs |-> r.fs, spec |-> r.spec, info |-> a.info]

-----------------------------------------------------------------------------
(* Single-shot mode: ResourcePolicy::from_cl_args_with_slurm (lib.rs:380-396) *)

\* parse_fd (lib.rs:495-501): Option(text) to a descriptor
parse_fd(o) ==
    IF o = None THEN [ok |-> FALSE, fd |-> 0]
    ELSE IF Unwrap(o) \in NumTokens THEN [ok |-> TRUE, fd |-> NumVal(Unwrap(o))]
    ELSE [ok |-> FALSE, fd |-> 0]

\* the `while let` of check_args_for_slurm_pipe (lib.rs:509-525) over what is
\* left of std::env::args()
RECURSIVE scan_args(_, _, _, _)
scan_args(args, pipe_slurminfo_found, rd, wd) ==
    IF args = <<>>
    THEN IF pipe_slurminfo_found
         THEN IF parse_fd(rd).ok /\ parse_fd(wd).ok
              THEN [kind |-> "pipe", rd |-> parse_fd(rd).fd, wd |-> parse_fd(wd).fd]
              ELSE [kind |-> "err", rd |-> 0, wd |-> 0]
         ELSE [kind |-> "none", rd |-> 0, wd |-> 0]
    ELSE LET s == Head(args)
             r1 == Tail(args)
         IN  IF s = "--p-slurminfo"
             THEN IF pipe_slurminfo_found THEN [kind |-> "err", rd |-> 0, wd |-> 0]
                  ELSE LET nrd == IF r1 = <<>> THEN None ELSE Some(Head(r1))
                           r2 == IF r1 = <<>> THEN <<>> ELSE Tail(r1)
                           nwd == IF r2 = <<>> THEN None ELSE Some(Head(r2))
                           r3 == IF r2 = <<>> THEN <<>> ELSE Tail(r2)
                       IN  scan_args(r3, TRUE, nrd, nwd)
             ELSE IF s = "--help" \/ s = "-h" THEN [kind |-> "none", rd |-> 0, wd |-> 0]
             ELSE scan_args(r1, pipe_slurminfo_found, rd, wd)

\* check_args_for_slurm_pipe (lib.rs:494-526)
check_args_for_slurm_pipe(env_args) == scan_args(env_args, FALSE, None, None)

\* the name the operating system passes as argv[0]
Argv0 == "labrat"

\* from_cl_args_with_slurm run with the arguments `args` (std::env::args() is
\* argv[0] followed by them): how it ends and what it prints on stdout
from_cl_args_with_slurm(args, f, extfile, noperm) ==
    LET env_args == <<Argv0>> \o args
        chk == check_args_for_slurm_pipe(env_args)
        a == try_parse_from("SlurmArgs", env_args)
        x == into_experiment(a, extfile)
        r == resources(x.exp, f, noperm)
    IN  IF chk.kind = "err" THEN [status |-> "error", stdout |-> None, fs |-> f]
        ELSE IF chk.kind = "pipe" THEN [status |-> "pipe", stdout |-> None, fs |-> f]
        ELSE IF ~a.ok THEN [status |-> "usage", stdout |-> None, fs |-> f]
        ELSE IF ~x.ok THEN [status |-> "error", stdout |-> None, fs |-> f]
        ELSE IF ~a.info THEN [status |-> "run", stdout |-> None, fs |-> f]
        ELSE IF r.status # "ok" THEN [status |-> "panic", stdout |-> None, fs |-> r.fs]
        ELSE [status |-> "printed", stdout |-> Some(r.spec), fs |-> r.fs]

-----------------------------------------------------------------------------
(* Batch mode: run_pipe_server (lib.rs:474-492) and the orchestrator that   *)
(* writes its request                                                        *)

MaxTokens == 4
MaxBatch == 2

RECURSIVE TotalLen(_)
TotalLen(vs) == IF vs = <<>> THEN 0 ELSE Len(Head(vs)) + TotalLen(Tail(vs))

\* the parameter set the external parameter file may hold
ExtParams == [frob |-> TRUE, param_name |-> Some(<<"n">>)]

\* the element parsed as arguments only, a binary name supplied for it
batch_argv_all_arguments(cmd) == <<Argv0>> \o cmd

\* what run_pipe_server hands to the parser for one element (lib.rs:485)
batch_argv(cmd) == cmd

\* a loop that stops at the failing element and answers with what it has
after_failure_break(status) == "write"

\* where the server goes when an element fails: `?` returns the error
\* (lib.rs:485-486), a panic of the resolver unwinds
after_failure(status) == IF status = "panic" THEN "panic" ELSE "exit_err"

\* records collected in reverse
push_spec_front(specs, r) == <<r>> \o specs

\* slurm_job_specs.push(..) (lib.rs:487)
push_spec(specs, r) == Append(specs, r)

\* one element of the request, as the loop body processes it (lib.rs:485-487)
element(cmd, f, extfile, noperm) == process("NoSlurmArgs", batch_argv(cmd), f, extfile, noperm)

\* an experiment that has run before the server starts, and the directory it used
EarlierRun == [input |-> [index |-> 0, tw_scale |-> 1],
               parameters |-> [frob |-> FALSE, param_name |-> Some(<<"n">>)]]

\* the server starts on a tree where ROOT is missing, or is a regular file, or
\* holds the directory of an earlier run with its parameter and index files
InitBatch ==
    /\ fs \in {[d \in Dirs |-> IF d = RootC THEN k ELSE "absent"] : k \in {"absent", "file"}}
             \cup {[d \in Dirs |-> IF d \in {RootC, Leaf(EarlierRun)} THEN "dir" ELSE "absent"]}
    /\ pfile = [d \in Dirs |->
                  IF fs[d] = "dir" /\ d = Leaf(EarlierRun)
                  THEN Some(to_string_pretty(EarlierRun.parameters)) ELSE None]
    /\ ifile = [x \in IndexPaths |->
                  IF fs[Leaf(EarlierRun)] = "dir" /\ x = index_path(EarlierRun)
                  THEN Some(index_json(EarlierRun.input, new_output(EarlierRun.input)))
                  ELSE None]
    /\ denied = FALSE
    /\ pc = [p \in Procs |-> "idle"]
    /\ exp = [p \in Procs |-> [input |-> [index |-> 0, tw_scale |-> 1],
                               parameters |-> [frob |-> FALSE, param_name |-> None]]]
    /\ op = [p \in Procs |-> "none"]
    /\ err = [p \in Procs |-> <<>>]
    /\ found = [p \in Procs |-> FALSE]
    /\ ret = [p \in Procs |-> NoRet]
    /\ restored = [p \in Procs |-> None]
    /\ ext \in {None, Some(to_string_pretty(ExtParams)), Some(<<"{">>)}
    /\ request = <<>>
    /\ bpc = "client"
    /\ commands = <<>>
    /\ slurm_job_specs = <<>>
    /\ failed = None
    /\ output = None
    /\ FnOff

\* the orchestrator starts the next argument vector of its request
ClientVector ==
    /\ bpc = "client"
    /\ Len(request) < MaxBatch
    /\ request' = Append(request, <<>>)
    /\ UNCHANGED <<fsVars, procVars, fnVars, ext, bpc, commands, slurm_job_specs, failed, output>>

\* the orchestrator adds an argument to the vector it is writing
ClientToken(t) ==
    /\ bpc = "client"
    /\ request # <<>>
    /\ TotalLen(request) < MaxTokens
    /\ request' = [request EXCEPT ![Len(request)] = Append(@, t)]
    /\ UNCHANGED <<fsVars, procVars, fnVars, ext, bpc, commands, slurm_job_specs, failed, output>>

\* the request is complete and the server is started on the pipe
ClientSend ==
    /\ bpc = "client"
    /\ bpc' = "read"
    /\ UNCHANGED <<fsVars, procVars, fnVars, ext, request, commands, slurm_job_specs, failed, output>>

\* serde_json::from_reader(reader) (lib.rs:481-482)
ServerRead ==
    /\ bpc = "read"
    /\ commands' = request
    /\ slurm_job_specs' = <<>>
    /\ bpc' = IF request = <<>> THEN "write" ELSE "loop"
    /\ UNCHANGED <<fsVars, procVars, fnVars, ext, request, failed, output>>

\* one turn of `for cmd in commands` (lib.rs:484-488)
ServerElement ==
    /\ bpc = "loop"
    /\ LET r == element(Head(commands), fs, ext, denied) IN
        /\ fs' = r.fs
        /\ IF r.status # "ok"
           THEN /\ bpc' = after_failure(r.status)
                /\ failed' = Some(Len(request) - Len(commands) + 1)
                /\ UNCHANGED <<commands, slurm_job_specs>>
           ELSE /\ slurm_job_specs' = push_spec(slurm_job_specs, r.spec)
                /\ commands' = Tail(commands)
                /\ bpc' = IF Tail(commands) = <<>> THEN "write" ELSE "loop"
                /\ failed' = failed
    /\ UNCHANGED <<pfile, ifile, denied, procVars, fnVars, ext, request, output>>

\* serde_json::to_writer(writer, &slurm_job_specs), then exit(0) (lib.rs:490, 383)
ServerWrite ==
    /\ bpc = "write"
    /\ output' = Some(slurm_job_specs)
    /\ bpc' = "exit_ok"
    /\ UNCHANGED <<fsVars, procVars, fnVars, ext, request, commands, slurm_job_specs, failed>>

BatchNext ==
    \/ ClientVector
    \/ \E t \in Tokens : ClientToken(t)
    \/ ClientSend
    \/ ServerRead
    \/ ServerElement
    \/ ServerWrite

BatchSpec == InitBatch /\ [][BatchNext]_vars

-----------------------------------------------------------------------------
(* Claims about the batch query server *)

Range(seq) == {seq[i] : i \in 1..Len(seq)}

\* how the loop body ends on element i of the request
Status(i) == element(request[i], fs, ext, denied).status

\* element i has been taken by the loop: its record was pushed, or it failed
Processed(i) == i <= Len(slurm_job_specs) \/ failed = Some(i)

\* C5: batch atomicity. Nothing is on the output channel unless the server has
\* processed every element successfully; when an element fails (whatever
\* succeeded before it) the server ends with an error and zero bytes written.
C5_BatchAtomicity ==
    /\ (bpc # "exit_ok") = (output = None)
    /\ output # None =>
         /\ Len(Unwrap(output)) = Len(request)
         /\ \A i \in 1..Len(request) : Status(i) = "ok"
         /\ failed = None
    /\ failed # None =>
         /\ bpc \in {"exit_err", "panic"}
         /\ Unwrap(failed) = Len(slurm_job_specs) + 1
         /\ Status(Unwrap(failed)) # "ok"
    /\ \A i \in 1..Len(slurm_job_specs) : Status(i) = "ok"

\* the second element failed after the first had succeeded
C5_Witness ==
    /\ bpc = "exit_err"
    /\ failed = Some(2)
    /\ Len(slurm_job_specs) = 1
    /\ output = None

\* C6: batch ordering. The response to N vectors that all succeed is N records,
\* the i-th being the ResourceSpec of the experiment built from vector i.
C6_BatchOrdering ==
    output # None =>
        /\ Len(Unwrap(output)) = Len(request)
        /\ \A i \in 1..Len(request) :
             Unwrap(output)[i] = element(request[i], fs, ext, denied).spec

\* a response of two different records
C6_Witness ==
    /\ output # None
    /\ Len(Unwrap(output)) = 2
    /\ Unwrap(output)[1] # Unwrap(output)[2]

\* C7 as stated: a vector carries no program name; every string of it, the
\* first included, is an argument of the invocation.
C7_EveryStringIsArgument ==
    \A i \in 1..Len(request) :
        Processed(i) =>
            LET r == process("NoSlurmArgs", <<Argv0>> \o request[i], fs, ext, denied)
            IN  IF i <= Len(slurm_job_specs)
                THEN r.status = "ok" /\ slurm_job_specs[i] = r.spec
                ELSE r.status # "ok"

\* C7 amended: the first string of a vector stands for the program name and is
\* not interpreted (whatever it is); every string after it is an argument of the
\* invocation. A vector with no string at all is an invocation without arguments.
C7_FirstStringIsProgramName ==
    \A i \in 1..Len(request) :
        Processed(i) =>
            LET args == IF request[i] = <<>> THEN <<>> ELSE Tail(request[i])
                r == process("NoSlurmArgs", <<Argv0>> \o args, fs, ext, denied)
            IN  IF i <= Len(slurm_job_specs)
                THEN r.status = "ok" /\ slurm_job_specs[i] = r.spec
                ELSE r.status # "ok"

\* a vector that starts with a switch was answered: the switch was not applied
C7_Witness ==
    /\ output # None
    /\ \E i \in 1..Len(request) :
         /\ request[i] = <<"--frob", "0">>
         /\ Unwrap(output)[i] =
              process("NoSlurmArgs", <<Argv0, "0">>, fs, ext, denied).spec
         /\ Unwrap(output)[i] #
              process("NoSlurmArgs", <<Argv0, "--frob", "0">>, fs, ext, denied).spec

\* what a single-shot invocation with arguments a prints for --slurminfo
PrintSpec(a) ==
    from_cl_args_with_slurm(IF "--slurminfo" \in Range(a) THEN a
                            ELSE a \o <<"--slurminfo">>, fs, ext, denied)

\* a is accepted by a single-shot invocation: parsed and constructed
Accepted(a) == PrintSpec(a).status \in {"printed", "panic"}

\* the loop body ended on element i as the single-shot invocation s did
SameOutcome(i, s) ==
    \/ i <= Len(slurm_job_specs) /\ s.status = "printed"
         /\ slurm_job_specs[i] = Unwrap(s.stdout)
    \/ failed = Some(i) /\ bpc = "panic" /\ s.status = "panic"

\* C8 as stated: for every vector a that a single-shot invocation accepts, the
\* record the batch server emits for a is the one the single-shot invocation
\* with arguments a prints.
C8_BatchEqualsSingleShot ==
    \A i \in 1..Len(request) :
        (Processed(i) /\ Accepted(request[i])) => SameOutcome(i, PrintSpec(request[i]))

\* C8 amended: for every argument vector a without a Slurm-managed switch that
\* a single-shot invocation accepts, the batch server, given a with a
\* program-name string put in front, emits the record the single-shot
\* invocation with arguments a prints.
C8_BatchEqualsSingleShotAfterName ==
    \A i \in 1..Len(request) :
        (/\ Processed(i)
         /\ request[i] # <<>>
         /\ "--slurminfo" \notin Range(Tail(request[i]))
         /\ Accepted(Tail(request[i])))
        => SameOutcome(i, PrintSpec(Tail(request[i])))

\* a vector that loads the parameter file was answered as single-shot mode prints
C8_Witness ==
    \E i \in 1..Len(slurm_job_specs) :
        /\ output # None
        /\ request[i] # <<>>
        /\ "-lf" \in Range(Tail(request[i]))
        /\ "--frob" \in Range(Tail(request[i]))
        /\ PrintSpec(Tail(request[i])).status = "printed"
        /\ slurm_job_specs[i] = Unwrap(PrintSpec(Tail(request[i])).stdout)

-----------------------------------------------------------------------------
(* Runs of the example's main (usage.rs:134-142): write_index_file, then      *)
(* write_parameter_file; and a reader that restores the experiment from disk *)

\* the experiments of the runs: the parameters without a name, with a name,
\* with the same name written with a trailing separator, and with an empty name
MainExperiments == [input : [index : Indexes, tw_scale : {1}], parameters : ParamsAll]

\* read_json::<Index<Input, Output>> (lib.rs:133-140) of a file's text
from_index_json(text) ==
    {x \in [input : [index : Indexes, tw_scale : {1}],
            output : {new_output(i) : i \in [index : Indexes, tw_scale : {1}]}] :
        index_json(x.input, x.output) = text}

\* Path::with_file_name (lib.rs:142): the directory the file is in
with_file_name_dir(path) == dirname(path)

InitMain ==
    /\ fs = [d \in Dirs |-> "absent"]
    /\ pfile = [d \in Dirs |-> None]
    /\ ifile = [x \in IndexPaths |-> None]
    /\ denied \in BOOLEAN
    /\ pc = [p \in Procs |-> "idle"]
    /\ exp \in [Procs -> MainExperiments]
    /\ op = [p \in Procs |-> "none"]
    /\ err = [p \in Procs |-> <<>>]
    /\ found = [p \in Procs |-> FALSE]
    /\ ret = [p \in Procs |-> NoRet]
    /\ restored = [p \in Procs |-> None]
    /\ BatchOff
    /\ FnOff

\* write_index_file: std::fs::write(p, contents) (lib.rs:113-118); the file is
\* created or replaced
WriteIndex(p) ==
    /\ pc[p] = "write_index"
    /\ IF fs[Leaf(exp[p])] = "dir"
       THEN /\ ifile' = [ifile EXCEPT ![index_path(exp[p])] =
                            Some(index_json(exp[p].input, new_output(exp[p].input)))]
            /\ ret' = [ret EXCEPT ![p] = RetOk(<<>>)]
       ELSE /\ ifile' = ifile
            /\ ret' = [ret EXCEPT ![p] = RetErr("NotADirectory")]
    /\ pc' = [pc EXCEPT ![p] = "done"]
    /\ UNCHANGED <<fs, pfile, denied, exp, op, err, found, restored>>

\* main goes on after a call that returned Ok: write_parameter_file after
\* write_index_file (usage.rs:136-137), and then the reader's from_index_file on
\* the index path of the experiment
NextCall(p) ==
    /\ pc[p] = "done"
    /\ ret[p].kind = "ok"
    /\ op[p] \in {"write_index_file", "write_parameter_file"}
    /\ IF op[p] = "write_index_file"
       THEN /\ op' = [op EXCEPT ![p] = "write_parameter_file"]
            /\ pc' = [pc EXCEPT ![p] = "mkdir"]
       ELSE /\ op' = [op EXCEPT ![p] = "from_index_file"]
            /\ pc' = [pc EXCEPT ![p] = "read_index"]
    /\ err' = [err EXCEPT ![p] = <<>>]
    /\ ret' = [ret EXCEPT ![p] = NoRet]
    /\ UNCHANGED <<fs, pfile, ifile, denied, exp, found, restored>>

\* from_index_file: read_json(&path) of the index (lib.rs:139-140)
ReadIndex(p) ==
    /\ pc[p] = "read_index"
    /\ LET text == ifile[index_path(exp[p])]
           index == IF text = None THEN None ELSE from_index_json(Unwrap(text))
       IN  IF index = None
           THEN /\ pc' = [pc EXCEPT ![p] = "done"]
                /\ ret' = [ret EXCEPT ![p] = RetErr("read_json")]
                /\ restored' = restored
           ELSE /\ pc' = [pc EXCEPT ![p] = "read_params"]
                /\ ret' = ret
                /\ restored' = [restored EXCEPT ![p] = index]
    /\ UNCHANGED <<fs, pfile, ifile, denied, exp, op, err, found>>

\* from_index_file: read_json of parameters.json next to the index, then
\* Self::new (lib.rs:142-150)
ReadParams(p) ==
    /\ pc[p] = "read_params"
    /\ LET text == pfile[with_file_name_dir(index_path(exp[p]))]
           params == IF text = None THEN None ELSE from_json(Unwrap(text))
       IN  IF params = None
           THEN /\ ret' = [ret EXCEPT ![p] = RetErr("read_json")]
                /\ restored' = [restored EXCEPT ![p] = None]
           ELSE /\ ret' = [ret EXCEPT ![p] = RetOk(<<>>)]
                /\ restored' = [restored EXCEPT ![p] =
                                  Some([input |-> Unwrap(@).input,
                                        parameters |-> Unwrap(params),
                                        output |-> Unwrap(@).output])]
    /\ pc' = [pc EXCEPT ![p] = "done"]
    /\ UNCHANGED <<fs, pfile, ifile, denied, exp, op, err, found>>

MainStep(p) ==
    \/ Call(p, "write_index_file")
    \/ Mkdir(p)
    \/ IsDir(p)
    \/ ParentMkdir(p)
    \/ ParentIsDir(p)
    \/ MkdirAgain(p)
    \/ Canonicalize(p)
    \/ WriteIndex(p)
    \/ NextCall(p)
    \/ Exists(p)
    \/ Write(p)
    \/ ReadIndex(p)
    \/ ReadParams(p)

\* independent runs, interleaved at their system calls
MainNext == (\E p \in Procs : MainStep(p)) /\ UNCHANGED <<batchVars, fnVars>>

MainSpec == InitMain /\ [][MainNext]_vars

\* a run is over: its reader has returned, or one of its calls has failed
Finished(p) == pc[p] = "done" /\ (op[p] = "from_index_file" \/ ret[p].kind # "ok")

\* runs made one after the other: a run moves only while every other run has
\* not started or is over
MainSeqNext ==
    (\E p \in Procs :
        /\ \A q \in Procs \ {p} : pc[q] = "idle" \/ Finished(q)
        /\ MainStep(p))
    /\ UNCHANGED <<batchVars, fnVars>>

MainSeqSpec == InitMain /\ [][MainSeqNext]_vars

-----------------------------------------------------------------------------
(* The pure functions, applied to inputs drawn from bounded sets *)

MaxLen == 2

\* the characters of the file names and identities tried: a letter, the
\* hyphen and the path separator
Alphabet == {"a", "-", "/"}

Strs == UNION {[1..k -> Alphabet] : k \in 0..MaxLen}

InitFn ==
    /\ fs = [d \in Dirs |-> "dir"]
    /\ pfile = [d \in Dirs |-> None]
    /\ ifile = [x \in IndexPaths |-> None]
    /\ denied = FALSE
    /\ pc = [p \in Procs |-> "idle"]
    /\ exp = [p \in Procs |-> [input |-> [index |-> 0, tw_scale |-> 1],
                               parameters |-> [frob |-> FALSE, param_name |-> None]]]
    /\ op = [p \in Procs |-> "none"]
    /\ err = [p \in Procs |-> <<>>]
    /\ found = [p \in Procs |-> FALSE]
    /\ ret = [p \in Procs |-> NoRet]
    /\ restored = [p \in Procs |-> None]
    /\ BatchOff
    /\ FnOff

\* the Output Location Resolver on an experiment with parameters p: without an
\* input identity it is get_output_path(filename) (lib.rs:89-95), with one it is
\* get_output_path_prefixed(filename) of an input whose id_str is that identity
\* (lib.rs:102-108)
ApplyResolve ==
    \E p \in ParamsAll, iid \in {None} \cup {Some(x) : x \in Strs}, filename \in Strs :
        LET e == [input |-> [index |-> 0, tw_scale |-> 1], parameters |-> p]
            r == ensure_directory_exists(fs, e, denied)
        IN  /\ fnName = "none"
            /\ r.kind = "ok"
            /\ fnName' = "resolve"
            /\ fnIn' = [parameters |-> p, input_identity |-> iid, filename |-> filename]
            /\ fnOut' = IF iid = None THEN get_output_path(r.dir, filename)
                        ELSE get_output_path_prefixed(r.dir, Unwrap(iid), filename)
            /\ fs' = r.fs
            /\ UNCHANGED <<pfile, ifile, denied, procVars, batchVars>>

\* the Identity Engine on a parameter set: value and override (usage.rs:65-69)
ApplyIdStr ==
    \E p \in ParamsAll :
        /\ fnName = "none"
        /\ fnName' = "id_str"
        /\ fnIn' = p
        /\ fnOut' = id_str_params(p)
        /\ UNCHANGED <<fsVars, procVars, batchVars>>

\* the sequences of at most n elements of S
RECURSIVE SeqsUpTo(_, _)
SeqsUpTo(S, n) ==
    IF n = 0 THEN {<<>>}
    ELSE LET R == SeqsUpTo(S, n - 1) IN R \cup {Append(v, t) : v \in R, t \in S}

MaxArgs == 3

\* the command lines tried, without the binary name
ArgVecs == SeqsUpTo(Tokens, MaxArgs)

\* what the file named by --load-params may hold: nothing (no such file), a
\* parameter set, or text that is not one
ExtFiles == {None, Some(<<"{">>)} \cup {Some(to_string_pretty(p)) : p \in ParamsRun}

\* ClArgs::parse() then into_experiment() (lib.rs:386-388, 455-472) on a command
\* line that parses, then the path of a file in the instance's directory
ApplyIntoExperiment ==
    \E args \in ArgVecs, extfile \in ExtFiles, hook \in Hooks :
        LET a == try_parse_from("SlurmArgs", <<Argv0>> \o args)
            x == into_experiment_with(hook, a, extfile)
            r == ensure_directory_exists(fs, x.exp, denied)
        IN  /\ fnName = "none"
            /\ a.ok
            /\ fnName' = "into_experiment"
            /\ fnIn' = [args |-> args, extfile |-> extfile, hook |-> hook]
            /\ fnOut' = [ok |-> x.ok, handed |-> x.handed, exp |-> x.exp,
                         path |-> IF x.ok /\ r.kind = "ok"
                                  THEN Some(get_output_path(r.dir, LogName)) ELSE None]
            /\ fs' = IF x.ok THEN r.fs ELSE fs
            /\ UNCHANGED <<pfile, ifile, denied, procVars, batchVars>>

\* the time limits tried, in seconds: every combination of a few day, hour,
\* minute and second counts around the digit and unit boundaries, and the largest
\* number of seconds the model's integers hold
TimeParts == {0, 1, 9, 10, 23}
TimeSamples ==
    {d * 86400 + h * 3600 + m * 60 + sec :
        d \in {0, 1, 2, 10, 365}, h \in TimeParts, m \in TimeParts \cup {59},
        sec \in TimeParts \cup {59}} \cup {2147483647}

\* the Resource Policy Normalizer's time rendering (lib.rs:278-286, 301)
ApplyFmtTime ==
    \E secs \in TimeSamples :
        /\ fnName = "none"
        /\ fnName' = "fmt_as_slurm_time"
        /\ fnIn' = secs
        /\ fnOut' = fmt_as_slurm_time(secs)
        /\ UNCHANGED <<fsVars, procVars, batchVars>>

MaxMail == 2

\* what ResourcePolicy::mail_type may answer: a Vec<MailType>
MailLists == SeqsUpTo(MailTypes, MaxMail)

\* what a ResourcePolicy method returning Option<String> may answer: nothing,
\* the empty string, or a string
OptStr(x) == {None, Some(<<>>), Some(<<x>>)}

\* the policies tried: the example's with every event list, and every
\* combination of the optional answers with no event and with two
Policies ==
    {[policy(NoExp) EXCEPT !.mail_type = ml] : ml \in MailLists}
    \cup {[policy(NoExp) EXCEPT !.mail_type = ml, !.job_name = j, !.mail_user = u,
                                !.constraint = c, !.exclude = x, !.nodelist = l] :
            ml \in {<<>>, <<"End", "Begin">>}, j \in OptStr("job"), u \in OptStr("me@host"),
            c \in OptStr("feature"), x \in OptStr("node1"), l \in OptStr("node2")}

\* SlurmResources::new on an experiment with the policy pol, serialized as
\* serde_json::to_writer / to_writer_pretty do (lib.rs:391, 487-490)
ApplyNormalize ==
    \E pol \in Policies :
        LET r == normalize(pol, NoExp, fs, denied)
        IN  /\ fnName = "none"
            /\ r.status = "ok"
            /\ fnName' = "normalize"
            /\ fnIn' = pol
            /\ fnOut' = r.spec
            /\ fs' = r.fs
            /\ UNCHANGED <<pfile, ifile, denied, procVars, batchVars>>

MaxScan == 4

\* the words of the raw invocations tried: the batch-mode flag, two file
\* descriptors, the two help flags and one other flag
ScanTokens == {"--p-slurminfo", "0", "1", "--help", "-h", "--frob"}

ScanVecs == SeqsUpTo(ScanTokens, MaxScan)

\* the batch-mode detection of from_cl_args_with_slurm (lib.rs:381) on the raw
\* arguments of the process: "pipe" starts run_pipe_server on rd and wd
\* (lib.rs:382), "none" goes on to the ordinary parser, "err" is returned
ApplyCheckArgs ==
    \E args \in ScanVecs :
        /\ fnName = "none"
        /\ fnName' = "check_args_for_slurm_pipe"
        /\ fnIn' = [args |-> args]
        /\ fnOut' = check_args_for_slurm_pipe(<<Argv0>> \o args)
        /\ UNCHANGED <<fsVars, procVars, batchVars>>

FnNext ==
    \/ ApplyIntoExperiment
    \/ ApplyCheckArgs
    \/ ApplyResolve
    \/ ApplyIdStr
    \/ ApplyFmtTime
    \/ ApplyNormalize

FnSpec == InitFn /\ [][FnNext]_vars

\* the canonical form of ROOT/parameter_identity, for the parameters p
CanonicalLocation(p) == canonical(push(root_dir, id_str_params(p)))

\* C9 as stated: the resolver returns <canonical ROOT/parameter_identity>/<last>,
\* <last> being the file name, or "{input_identity}-{filename}" when an input
\* identity is supplied.
C9_HyphenatedPrefix ==
    fnName = "resolve" =>
        fnOut = CanonicalLocation(fnIn.parameters) \o <<"/">>
                    \o (IF fnIn.input_identity = None THEN fnIn.filename
                        ELSE Unwrap(fnIn.input_identity) \o <<"-">> \o fnIn.filename)

\* C9 amended: <last> is the file name, or the input identity immediately
\* followed by the file name (no hyphen is put between them: the file names the
\* library passes start with their own separator); the resolver returns
\* <canonical ROOT/parameter_identity>/<last> when <last> does not start with
\* the path separator, and <last> alone when it does.
C9_ConcatenatedPrefix ==
    fnName = "resolve" =>
        LET last == IF fnIn.input_identity = None THEN fnIn.filename
                    ELSE Unwrap(fnIn.input_identity) \o fnIn.filename
        IN  fnOut = IF last # <<>> /\ last[1] = "/" THEN last
                    ELSE CanonicalLocation(fnIn.parameters) \o <<"/">> \o last

\* an input identity and a file name without a hyphen between them
C9_Witness ==
    /\ fnName = "resolve"
    /\ fnIn.input_identity = Some(<<"a">>)
    /\ fnIn.filename = <<"a">>
    /\ fnOut = CanonicalLocation(fnIn.parameters) \o <<"/", "a", "a">>

\* C10: identity(value, override) is the override exactly when the override is
\* present and non-empty, and the digest of the value in every other case.
C10_OverrideOnlyIfNonEmpty ==
    fnName = "id_str" =>
        fnOut = IF fnIn.param_name # None /\ Unwrap(fnIn.param_name) # <<>>
                THEN Unwrap(fnIn.param_name)
                ELSE id_from_serialised(fnIn)

-----------------------------------------------------------------------------
(* Claims about construction *)

\* C11: construction precedence. When a parameter file is named, the parameter
\* set handed to the post-parse hook is the file's content, whatever parameter
\* flags the command line carries (and construction fails when the file cannot
\* be read); the instance holds the parameters as the hook left them, its output
\* is derived after the hook, and its identity and output paths are those of the
\* hook-adjusted parameters.
C11_ConstructionPrecedence ==
    fnName = "into_experiment" =>
        LET names_file == "-lf" \in Range(fnIn.args)
            file == IF fnIn.extfile = None THEN None ELSE from_json(Unwrap(fnIn.extfile))
        IN  /\ (names_file /\ file # None) => (fnOut.ok /\ fnOut.handed = file)
            /\ (names_file /\ file = None) => ~fnOut.ok
            /\ fnOut.ok =>
                 LET adjusted == post_parse_with(fnIn.hook, fnOut.exp.input,
                                                 Unwrap(fnOut.handed))
                 IN  /\ fnOut.exp.parameters = adjusted
                     /\ fnOut.exp.output = new_output(fnOut.exp.input)
                     /\ fnOut.path =
                          Some(CanonicalLocation(adjusted) \o <<"/">> \o LogName)

\* --frob on the command line, a file that says frob is false and gives a name,
\* and a hook that removes the name: the instance has the file's frob and the
\* digest identity
C11_Witness ==
    /\ fnName = "into_experiment"
    /\ "--frob" \in Range(fnIn.args) /\ "-lf" \in Range(fnIn.args)
    /\ fnIn.extfile = Some(to_string_pretty([frob |-> FALSE, param_name |-> Some(<<"n">>)]))
    /\ fnIn.hook = "unname"
    /\ fnOut.ok
    /\ fnOut.exp.parameters = [frob |-> FALSE, param_name |-> None]
    /\ fnOut.path = Some(RootC \o <<"/">>
                           \o id_from_serialised([frob |-> FALSE, param_name |-> None])
                           \o <<"/">> \o LogName)

-----------------------------------------------------------------------------
(* Claims about the normalizer *)

\* a number below 100 in exactly two decimal digits
TwoDigits(n) == <<DigitTok(n \div 10), DigitTok(n % 10)>>

\* C12: time formatting. For every whole number of seconds s the time limit is
\* rendered "D-H:MM:SS" with D = s div 86400, H = (s div 3600) mod 24 (0..23),
\* MM = (s div 60) mod 60 and SS = s mod 60 in two digits, D and H unpadded;
\* 0 gives "0-0:00:00", 3661 "0-1:01:01", 90000 "1-1:00:00", 90061 "1-1:01:01".
C12_TimeFormat ==
    fnName = "fmt_as_slurm_time" =>
        LET s == fnIn
            H == (s \div 3600) % 24
        IN  /\ H \in 0..23
            /\ fnOut = Digits(s \div 86400) \o <<"-">> \o Digits(H) \o <<":">>
                         \o TwoDigits((s \div 60) % 60) \o <<":">> \o TwoDigits(s % 60)
            /\ s = 0 => fnOut = <<"0", "-", "0", ":", "0", "0", ":", "0", "0">>
            /\ s = 3661 => fnOut = <<"0", "-", "1", ":", "0", "1", ":", "0", "1">>
            /\ s = 90000 => fnOut = <<"1", "-", "1", ":", "0", "0", ":", "0", "0">>
            /\ s = 90061 => fnOut = <<"1", "-", "1", ":", "0", "1", ":", "0", "1">>

\* more than a day, with an hour, a minute and a second that need their padding
C12_Witness ==
    /\ fnName = "fmt_as_slurm_time"
    /\ fnIn = 90061
    /\ fnOut = <<"1", "-", "1", ":", "0", "1", ":", "0", "1">>

\* the values a serialized record carries under the key k, in order
RECURSIVE ValuesOf(_, _)
ValuesOf(rec, k) ==
    IF rec = <<>> THEN <<>>
    ELSE (IF Head(rec)[1] = k THEN <<Head(rec)[2]>> ELSE <<>>) \o ValuesOf(Tail(rec), k)

\* C13: notification events. With an empty event list the serialized record has
\* no mail-type member; otherwise it has one, whose value is the scheduler
\* tokens of the events, in the order supplied, separated by commas: as many
\* tokens as the list has events, nothing sorted, no duplicate removed.
C13_MailType ==
    fnName = "normalize" =>
        LET ml == fnIn.mail_type
            vs == ValuesOf(fnOut, "mail-type")
        IN  IF ml = <<>> THEN vs = <<>>
            ELSE /\ Len(vs) = 1
                 /\ Len(vs[1]) = 2 * Len(ml) - 1
                 /\ \A i \in 1..Len(ml) : <<vs[1][2 * i - 1]>> = mail_type_to_string(ml[i])
                 /\ \A i \in 1..(Len(ml) - 1) : vs[1][2 * i] = ","

\* an event given twice, and two events out of alphabetical order
C13_Witness ==
    /\ fnName = "normalize"
    /\ \/ fnIn.mail_type = <<"Fail", "Fail">>
          /\ ValuesOf(fnOut, "mail-type") = << <<"FAIL", ",", "FAIL">> >>
       \/ fnIn.mail_type = <<"End", "Begin">>
          /\ ValuesOf(fnOut, "mail-type") = << <<"END", ",", "BEGIN">> >>

\* the keys of the optional members of the record
OptionalKeys == {"job-name", "mail-user", "mail-type", "constraint", "exclude", "nodelist"}

\* the options of a policy that are set, as <<key, value>>; an event list is
\* set when it is not empty
SetOptions(pol) ==
    {<<"job-name", Unwrap(o)>> : o \in {pol.job_name} \ {None}}
    \cup {<<"mail-user", Unwrap(o)>> : o \in {pol.mail_user} \ {None}}
    \cup {<<"mail-type", Unwrap(o)>> : o \in {mail_type_field(pol.mail_type)} \ {None}}
    \cup {<<"constraint", Unwrap(o)>> : o \in {pol.constraint} \ {None}}
    \cup {<<"exclude", Unwrap(o)>> : o \in {pol.exclude} \ {None}}
    \cup {<<"constraint", Unwrap(o)>> : o \in {pol.nodelist} \ {None}}

\* how many of the six options of a policy are set
NumSet(pol) ==
    Cardinality({k \in {"job_name", "mail_user", "constraint", "exclude", "nodelist"} :
                    pol[k] # None})
    + (IF pol.mail_type = <<>> THEN 0 ELSE 1)

-----------------------------------------------------------------------------
(* Claims about the resolver's errors and the files under ROOT *)

\* C15: in ensure_directory_exists an "already exists" error of the directory
\* creation is treated as success, and every other error of it (permission
\* denied, a regular file where ROOT should be) is fatal to the resolver call:
\* the call returns no path and ends with that error; no path is ever returned
\* after a creation error other than "already exists".
C15_CreationErrors ==
    \A p \in Procs :
        (pc[p] = "done" /\ op[p] \in Resolvers) =>
            /\ LastErr(p) = "AlreadyExists" => ret[p].kind = "ok"
            /\ LastErr(p) \notin {"Ok", "AlreadyExists"} =>
                 /\ ret[p].kind = "panic"
                 /\ ret[p].e = LastErr(p)
                 /\ ret[p].path = <<>>
            /\ ret[p].kind = "ok" => LastErr(p) \in {"Ok", "AlreadyExists"}

\* one call ended on a permission error while another, on a directory that
\* was there, got "already exists" and a path
C15_Witness ==
    \E p, q \in Procs :
        /\ pc[p] = "done" /\ op[p] \in Resolvers
        /\ LastErr(p) = "PermissionDenied" /\ ret[p] = RetPanic("PermissionDenied")
        /\ pc[q] = "done" /\ op[q] \in Resolvers
        /\ LastErr(q) = "AlreadyExists" /\ ret[q].kind = "ok"

\* the experiment the loop of the server is building from the vector it takes
Building == into_experiment(try_parse_from("NoSlurmArgs", batch_argv(Head(commands))), ext).exp

\* C16: computing ResourceSpecs has no filesystem effect other than creating the
\* directory ROOT/<parameter-identity> of the instance (with ROOT, when it is
\* missing). No step of a batch exchange, whether it ends with a response or is
\* aborted, and so no single computation of a ResourceSpec, creates, changes or
\* removes a parameters.json, an index file or any other file under ROOT.
C16_OnlyDirectoriesCreated ==
    [][/\ pfile' = pfile
       /\ ifile' = ifile
       /\ \A d \in Dirs :
            fs'[d] # fs[d] =>
                /\ fs[d] = "absent" /\ fs'[d] = "dir"
                /\ bpc = "loop"
                /\ d \in {RootC, Leaf(Building)}]_vars

\* an aborted exchange that had created the directory of its first element, in
\* a tree where an earlier run has left its files: they are as they were
C16_Witness ==
    /\ bpc = "exit_err"
    /\ Len(slurm_job_specs) = 1
    /\ fs[Leaf(NoExp)] = "dir"
    /\ pfile[Leaf(EarlierRun)] = Some(to_string_pretty(EarlierRun.parameters))
    /\ ifile[index_path(EarlierRun)] # None

-----------------------------------------------------------------------------
(* Claims about batch-mode detection and the keys of the record *)

\* C17: batch-mode detection. Whenever the raw arguments contain --p-slurminfo
\* followed by two integer file descriptors R and W, the pipe server is started
\* on R and W, whatever other arguments the invocation carries, --help and -h
\* included.
C17_PipeFlagWins ==
    fnName = "check_args_for_slurm_pipe" =>
        \A i \in 1..(Len(fnIn.args) - 2) :
            (/\ fnIn.args[i] = "--p-slurminfo"
             /\ fnIn.args[i + 1] \in NumTokens
             /\ fnIn.args[i + 2] \in NumTokens)
            => fnOut = [kind |-> "pipe", rd |-> NumVal(fnIn.args[i + 1]),
                        wd |-> NumVal(fnIn.args[i + 2])]

\* the keys of a serialized record, in order
KeysOf(rec) == [i \in 1..Len(rec) |-> rec[i][1]]

\* C18: every serialized record has pairwise distinct field names, whichever
\* optional fields are set; a policy that sets a constraint and a node list
\* yields a record with each of the two values under its own key.
C18_DistinctKeys ==
    fnName = "normalize" =>
        /\ \A i, j \in 1..Len(fnOut) : i # j => KeysOf(fnOut)[i] # KeysOf(fnOut)[j]
        /\ (fnIn.constraint # None /\ fnIn.nodelist # None) =>
             \E kc, kl \in Range(KeysOf(fnOut)) :
                /\ kc # kl
                /\ ValuesOf(fnOut, kc) = <<Unwrap(fnIn.constraint)>>
                /\ ValuesOf(fnOut, kl) = <<Unwrap(fnIn.nodelist)>>


-----------------------------------------------------------------------------
(* Claims about whole runs: the parameter files on disk and the way back *)

\* the ParameterSet the parameters.json of directory d holds
Stored(d) == Unwrap(from_json(Unwrap(pfile[d])))

\* a run has got through its write_parameter_file
Wrote(p) ==
    \/ op[p] = "from_index_file"
    \/ op[p] = "write_parameter_file" /\ pc[p] = "done" /\ ret[p].kind = "ok"

\* C19, as stated: every existing file ROOT/<d>/parameters.json holds a
\* ParameterSet whose identity (id_str of the stored content) is the directory
\* name d
C19_IdentityIsDirectoryName ==
    \A d \in Dirs \ {RootC} :
        pfile[d] # None => RootC \o <<"/">> \o id_str_params(Stored(d)) = d

\* C19, amended: every existing parameters.json holds a ParameterSet, and the
\* directory it is in is the canonical form of ROOT joined with the identity of
\* that ParameterSet
C19_ContentAddressing ==
    \A d \in Dirs :
        pfile[d] # None =>
            /\ from_json(Unwrap(pfile[d])) # None
            /\ canonical(push(root_dir, id_str_params(Stored(d)))) = d

\* two racing runs with the names "n" and "n/" have both written the file of
\* directory ROOT/n, and it holds the parameters named "n/"
C19_Witness ==
    \E p \in Procs : \E q \in Procs \ {p} :
        /\ exp[p].parameters.param_name = Some(<<"n", "/">>)
        /\ exp[q].parameters.param_name = Some(<<"n">>)
        /\ Wrote(p) /\ Wrote(q)
        /\ ~found[p] /\ ~found[q]
        /\ pfile[Leaf(exp[q])] = Some(to_string_pretty(exp[p].parameters))

\* what an experiment holds: its input, its parameters and its output
Held(e) == [input |-> e.input, parameters |-> e.parameters, output |-> new_output(e.input)]

\* from_index_file on the index path of the run's experiment has returned
Restored(p) == pc[p] = "done" /\ op[p] = "from_index_file"

\* C20, as stated: after write_index_file and write_parameter_file of e,
\* from_index_file on e's index path returns an experiment whose input,
\* parameters and output are those of e, whatever ran earlier in the directory
C20_RoundTrip ==
    \A p \in Procs :
        Restored(p) => ret[p].kind = "ok" /\ restored[p] = Some(Held(exp[p]))

\* C20, amended: from_index_file returns an experiment whose input and output
\* are those of e; its parameters are those of e when parameters.json did not
\* exist at e's write_parameter_file, and otherwise the ones the file already
\* held, written by an earlier run in the same directory
C20_RoundTripWriteOnce ==
    \A p \in Procs :
        Restored(p) =>
            /\ ret[p].kind = "ok"
            /\ restored[p] # None
            /\ LET r == Unwrap(restored[p]) IN
                /\ r.input = exp[p].input
                /\ r.output = new_output(exp[p].input)
                /\ IF ~found[p]
                   THEN r.parameters = exp[p].parameters
                   ELSE \E q \in Procs \ {p} :
                            /\ Finished(q)
                            /\ Leaf(exp[q]) = Leaf(exp[p])
                            /\ ~found[q]
                            /\ r.parameters = exp[q].parameters

\* a run got back the parameters of an earlier run that used the same name with
\* another value of frob
C20_Witness ==
    \E p \in Procs : \E q \in Procs \ {p} :
        /\ Restored(p)
        /\ found[p]
        /\ exp[p].parameters.param_name = exp[q].parameters.param_name
        /\ exp[p].parameters.frob # exp[q].parameters.frob
        /\ restored[p] = Some([Held(exp[p]) EXCEPT !.parameters = exp[q].parameters])

=========================================================================
